---- MODULE Spec2Model ----
(***************************************************************************)
(* A model of the DOC Great Walks availability scraper (src/scraper.py).   *)
(*                                                                         *)
(*   Spec        one run of main(): configuration filter, the outer pool   *)
(*               of walks, each walk's inner pool of fetch requests, the   *)
(*               collection loops and the snapshot write.                  *)
(*   SpecFetch   scrape_walk_availability applied to every answer the      *)
(*               upstream endpoint can give to its single HTTP call.       *)
(*   SpecWriter  save_scrape_results called repeatedly on one disk.        *)
(*                                                                         *)
(* Python values: a dict is a function on string keys (d.get(k, v) is      *)
(* Get(d, k, v)), a list is a sequence, None is the string None.  Ids      *)
(* (placeId, FacilityId) are opaque tokens and are strings; capacities     *)
(* and prices are integers.  A datetime is a number of seconds since       *)
(* 1970-01-01T00:00:00 of the local wall clock (microseconds are not       *)
(* modelled); a formatted datetime is the tuple of its numeric fields.     *)
(***************************************************************************)
EXTENDS Integers, Sequences, FiniteSets, TLC

VARIABLES
    config,           \* the parsed config/walks.json
    pc,               \* main's position
    clock,            \* the wall clock at its latest reading
    check_timestamp,  \* main's check_timestamp (line 278)
    enabled_walks,    \* main's enabled_walks (line 249)
    walk_task,        \* per enabled walk: its future in main's executor and its frame
    all_records,      \* main's all_records (line 285)
    walk_results,     \* main's walk_results (line 286)
    files,            \* the disk: path -> file contents
    dirs,             \* the disk: directories that exist
    fetch_call,       \* SpecFetch: the arguments and the upstream answer
    fetch_ret,        \* SpecFetch: what scrape_walk_availability did
    save_call,        \* SpecWriter: the arguments of save_scrape_results
    save_ret          \* SpecWriter: what save_scrape_results returned

vars == <<config, pc, clock, check_timestamp, enabled_walks, walk_task,
          all_records, walk_results, files, dirs, fetch_call, fetch_ret,
          save_call, save_ret>>

run_vars == <<config, pc, clock, check_timestamp, enabled_walks,
              walk_task, all_records, walk_results>>

disk_vars == <<files, dirs>>

fetch_vars == <<fetch_call, fetch_ret>>

save_vars == <<save_call, save_ret>>

(***************************************************************************)
(* Bounds of the model.                                                    *)
(***************************************************************************)
MaxWalks == 2

MaxDaysAhead == 2

MaxNights == 2

MaxWorkers == 2

MaxTotalRequests == 4

MaxFacilities == 1

MaxDates == 1

MaxSaveRecords == 2

(***************************************************************************)
(* Python values.                                                          *)
(***************************************************************************)
None == "None"

Get(d, k, default) == IF k \in DOMAIN d THEN d[k] ELSE default

Restrict(d, keys) == [k \in keys |-> d[k]]

SeqsUpTo(S, n) == UNION {[1..k -> S] : k \in 0..n}

RECURSIVE Concat(_)
Concat(ss) == IF ss = <<>> THEN <<>> ELSE Head(ss) \o Concat(Tail(ss))

(***************************************************************************)
(* datetime: the proleptic Gregorian calendar of Python's datetime.        *)
(***************************************************************************)
DayOf(t) == t \div (24 * 60 * 60)

SecondOfDay(t) == t % (24 * 60 * 60)

\* The calendar date <<year, month, day>> of day number z (days since 1970-01-01).
CivilFromDays(z) ==
    LET s   == z + 719468
        era == s \div 146097
        doe == s % 146097
        yoe == (doe - doe \div 1460 + doe \div 36524 - doe \div 146096) \div 365
        doy == doe - (365 * yoe + yoe \div 4 - yoe \div 100)
        mp  == (5 * doy + 2) \div 153
        d   == doy - (153 * mp + 2) \div 5 + 1
        m   == IF mp < 10 THEN mp + 3 ELSE mp - 9
        y   == yoe + era * 400 + (IF m <= 2 THEN 1 ELSE 0)
    IN  <<y, m, d>>

\* The day number of the calendar date <<year, month, day>>.
DaysFromCivil(date) ==
    LET y   == IF date[2] <= 2 THEN date[1] - 1 ELSE date[1]
        era == y \div 400
        yoe == y % 400
        mp  == IF date[2] > 2 THEN date[2] - 3 ELSE date[2] + 9
        doy == (153 * mp + 2) \div 5 + date[3] - 1
        doe == yoe * 365 + yoe \div 4 - yoe \div 100 + doy
    IN  era * 146097 + doe - 719468

\* datetime(year, month, day, hour, minute, second)
Instant(year, month, day, hour, minute, second) ==
    DaysFromCivil(<<year, month, day>>) * 24 * 60 * 60 + hour * 3600 + minute * 60 + second

\* datetime + timedelta(days=n)
AddDays(t, n) == t + n * 24 * 60 * 60

\* strftime("%Y-%m-%d")
StrfDate(t) == CivilFromDays(DayOf(t))

\* strftime("%Y"), strftime("%m")
StrfYear(t) == <<CivilFromDays(DayOf(t))[1]>>

StrfMonth(t) == <<CivilFromDays(DayOf(t))[2]>>

\* strftime("%Y-%m-%d-%H%M")
StrfMinute(t) ==
    CivilFromDays(DayOf(t)) \o <<SecondOfDay(t) \div 3600, (SecondOfDay(t) % 3600) \div 60>>

\* isoformat()
IsoFormat(t) ==
    CivilFromDays(DayOf(t))
      \o <<SecondOfDay(t) \div 3600, (SecondOfDay(t) % 3600) \div 60, SecondOfDay(t) % 60>>

(***************************************************************************)
(* The wall clock (datetime.now()).  A reading finds the clock where the   *)
(* previous reading left it or Delay seconds later.                        *)
(***************************************************************************)
\* The eve of a leap day, half a minute before midnight.
StartInstants == { Instant(2024, 2, 28, 23, 59, 30) }

Delay == 45

Readings == {clock, clock + Delay}

(***************************************************************************)
(* The upstream endpoint's answers to requests.post (line 79).             *)
(***************************************************************************)
FullDateEntry ==
    [ArrivalDate |-> <<2027, 1, 5>>, TotalCapacity |-> 40, TotalAvailable |-> 7,
     BookingStatus |-> "Available", Price |-> 32]

DateEntries ==
    { Restrict(FullDateEntry, K) :
        K \in { DOMAIN FullDateEntry, DOMAIN FullDateEntry \ {"Price"}, {} } }

FullFacility == [FacilityName |-> "Clinton Hut", FacilityId |-> "101"]

EmptyDict == <<>>

Facilities ==
    { Restrict(FullFacility, K) @@ ("GreatWalkFacilityDateData" :> dd) :
        K \in { DOMAIN FullFacility, {} }, dd \in SeqsUpTo(DateEntries, MaxDates) }
    \cup { FullFacility }

JsonObjects ==
    { [GreatWalkFacilityData |-> fs] : fs \in SeqsUpTo(Facilities, MaxFacilities) }
    \cup { EmptyDict }

\* What response.json() meets: a JSON object, a JSON value that is no object,
\* or a body that is not JSON.  requests raises its own JSONDecodeError (a
\* RequestException) from version 2.27 on and a plain ValueError before.
Bodies ==
    { [kind |-> "object", data |-> d] : d \in JsonObjects }
    \cup { [kind |-> "array", data |-> <<>>] }
    \cup { [kind |-> "not_json", data |-> e] : e \in {"RequestException", "ValueError"} }

Statuses == {200, 204, 300, 403, 404, 500}

Responses ==
    { [transport |-> "ok", status |-> s, body |-> b] : s \in Statuses, b \in Bodies }
    \cup { [transport |-> t, status |-> 0, body |-> [kind |-> "array", data |-> <<>>]] :
             t \in {"timeout", "connection_error"} }

\* Response.raise_for_status(): an HTTPError for a 4xx or a 5xx status.
RaisesForStatus(status) == 400 <= status /\ status < 600

Returned(records) == [raised |-> "", records |-> records]

Raised(exc) == [raised |-> exc, records |-> <<>>]

(***************************************************************************)
(* scrape_walk_availability (lines 59-127).                                *)
(***************************************************************************)
\* lines 108-118
MakeRecord(walk_name, place_id, facility, date_entry) ==
    [walk_name      |-> walk_name,
     place_id       |-> place_id,
     facility_name  |-> Get(facility, "FacilityName", "Unknown"),
     facility_id    |-> Get(facility, "FacilityId", None),
     target_date    |-> Get(date_entry, "ArrivalDate", <<>>),
     total_capacity |-> Get(date_entry, "TotalCapacity", 0),
     total_available |-> Get(date_entry, "TotalAvailable", 0),
     booking_status |-> Get(date_entry, "BookingStatus", ""),
     price          |-> Get(date_entry, "Price", 0)]

\* lines 99-119: one record per date entry of each facility, in order
FacilityRecords(walk_name, place_id, facility) ==
    LET date_data == Get(facility, "GreatWalkFacilityDateData", <<>>)
    IN  [i \in 1..Len(date_data) |-> MakeRecord(walk_name, place_id, facility, date_data[i])]

FlattenFacilities(walk_name, place_id, facilities) ==
    Concat([i \in 1..Len(facilities) |-> FacilityRecords(walk_name, place_id, facilities[i])])

\* The outcome of the call: the records returned, or the exception that leaves it.
scrape_walk_availability(place_id, walk_name, arrival_date, nights, resp) ==
    IF resp.transport # "ok" THEN Returned(<<>>)                     \* lines 124-127
    ELSE IF resp.status = 403 THEN Returned(<<>>)                    \* lines 83-86
    ELSE IF RaisesForStatus(resp.status) THEN Returned(<<>>)         \* lines 88, 124-127
    ELSE IF resp.body.kind = "not_json"                              \* line 90
        THEN IF resp.body.data = "RequestException"
                THEN Returned(<<>>)
                ELSE Raised("ValueError")
    ELSE IF resp.body.kind # "object" THEN Raised("AttributeError")  \* line 93
    ELSE IF Get(resp.body.data, "GreatWalkFacilityData", <<>>) = <<>>
        THEN Returned(<<>>)                                          \* lines 93-95
    ELSE Returned(FlattenFacilities(walk_name, place_id,
                                    resp.body.data["GreatWalkFacilityData"]))

(***************************************************************************)
(* SpecFetch: scrape_walk_availability on every upstream answer.           *)
(***************************************************************************)
NoCall == [state |-> "idle"]

FetchArgs ==
    { [state |-> "called", place_id |-> "873", walk_name |-> "Milford Track",
       arrival_date |-> StrfDate(t), nights |-> n, resp |-> r] :
        t \in StartInstants, n \in 1..MaxNights, r \in Responses }

FetchInit ==
    /\ fetch_call \in FetchArgs
    /\ fetch_ret = NoCall
    /\ config = EmptyDict /\ pc = "unused" /\ clock = 0
    /\ check_timestamp = 0 /\ enabled_walks = <<>> /\ walk_task = <<>>
    /\ all_records = <<>> /\ walk_results = EmptyDict
    /\ files = EmptyDict /\ dirs = {}
    /\ save_call = NoCall /\ save_ret = NoCall

FetchRun ==
    /\ fetch_ret = NoCall
    /\ fetch_ret' = [state |-> "done",
                     out |-> scrape_walk_availability(fetch_call.place_id, fetch_call.walk_name,
                                 fetch_call.arrival_date, fetch_call.nights, fetch_call.resp)]
    /\ UNCHANGED <<fetch_call, run_vars, disk_vars, save_vars>>

FetchNext == FetchRun

SpecFetch == FetchInit /\ [][FetchNext]_vars

(***************************************************************************)
(* config/walks.json (load_config, lines 53-56).                           *)
(***************************************************************************)
Catalogue ==
    << [name |-> "Milford Track", placeId |-> "873"],
       [name |-> "Routeburn Track", placeId |-> "874"],
       [name |-> "Kepler Track", placeId |-> "875"],
       [name |-> "Heaphy Track", placeId |-> "876"] >>

Enabled(c) == c @@ ("enabled" :> TRUE)

\* The ways each entry of the walks array is written: enabled with its placeId,
\* or left out of the run by a null or absent placeId, by enabled = false or
\* by an absent enabled key.
WalkForms ==
    << { Enabled(Catalogue[1]), [name |-> Catalogue[1].name, placeId |-> None, enabled |-> TRUE] },
       { Enabled(Catalogue[2]), Catalogue[2] @@ ("enabled" :> FALSE) },
       { Enabled(Catalogue[3]), Catalogue[3] },
       { Enabled(Catalogue[4]), [name |-> Catalogue[4].name, enabled |-> TRUE] } >>

WalkLists ==
    { ws \in [1..MaxWalks -> UNION {WalkForms[i] : i \in 1..MaxWalks}] :
        \A i \in 1..MaxWalks : ws[i] \in WalkForms[i] }

ScrapingFull ==
    { [days_ahead |-> h, nights_per_request |-> w,
       max_workers_per_walk |-> k, max_parallel_walks |-> p] :
        h \in 0..MaxDaysAhead, w \in 1..MaxNights, k \in 1..MaxWorkers, p \in 1..MaxWorkers }

ScrapingKeySets ==
    { {"days_ahead", "nights_per_request", "max_workers_per_walk", "max_parallel_walks"},
      {"days_ahead"}, {} }

Scrapings == { Restrict(sc, K) : sc \in ScrapingFull, K \in ScrapingKeySets }

DefaultDaysAhead == 365

DefaultNightsPerRequest == 30

DefaultMaxWorkersPerWalk == 5

DefaultMaxParallelWalks == 3

\* lines 261-264
days_ahead == Get(config.scraping, "days_ahead", DefaultDaysAhead)

nights_per_request == Get(config.scraping, "nights_per_request", DefaultNightsPerRequest)

max_workers_per_walk == Get(config.scraping, "max_workers_per_walk", DefaultMaxWorkersPerWalk)

max_parallel_walks == Get(config.scraping, "max_parallel_walks", DefaultMaxParallelWalks)

\* Mutant of IsEnabled: the placeId is not looked at.
IsEnabled_NoPlaceCheck(w) == Get(w, "enabled", FALSE)

\* line 249
IsEnabled(w) == Get(w, "enabled", FALSE) /\ Get(w, "placeId", None) # None

EnabledWalks(walks) == SelectSeq(walks, IsEnabled)

\* Mutant of RequestsNeeded: the count is rounded up instead of floor + 1.
RequestsNeeded_Ceil(h, w) == (h + w - 1) \div w

\* lines 142 and 273
RequestsNeeded(h, w) == (h \div w) + 1

Configs ==
    { c \in [walks : WalkLists, scraping : Scrapings] :
        Len(EnabledWalks(c.walks))
          * RequestsNeeded(Get(c.scraping, "days_ahead", DefaultDaysAhead),
                           Get(c.scraping, "nights_per_request", DefaultNightsPerRequest))
          <= MaxTotalRequests }

(***************************************************************************)
(* save_scrape_results (lines 193-235).                                    *)
(***************************************************************************)
DATA_DIR == "data"

fieldnames ==
    <<"check_timestamp", "walk_name", "place_id", "facility_name", "facility_id",
      "target_date", "total_capacity", "total_available", "booking_status", "price">>

\* lines 204-205
MonthDir(ts) == <<DATA_DIR, StrfYear(ts), StrfMonth(ts)>>

\* line 206: mkdir(parents=True, exist_ok=True)
Ancestors(path) == { SubSeq(path, 1, n) : n \in 1..Len(path) }

\* line 209
FileName(ts) == MonthDir(ts) \o <<StrfMinute(ts), "csv">>

\* lines 212-213
Stamp(record, ts) == ("check_timestamp" :> IsoFormat(ts)) @@ record

StampAll(records, ts) == [i \in 1..Len(records) |-> Stamp(records[i], ts)]

\* lines 229-232: the header, then each record's values in the header's order
CsvRow(record) == [i \in 1..Len(fieldnames) |-> Get(record, fieldnames[i], "")]

CsvFile(records) ==
    [header |-> fieldnames, rows |-> [i \in 1..Len(records) |-> CsvRow(records[i])]]

\* The return value None of a call that returns no path.
NoPath == <<>>

\* Mutant of save_scrape_results: the early return on no records is missing.
save_scrape_results_NoGuard(disk_files, disk_dirs, records, ts) ==
    [files   |-> (FileName(ts) :> CsvFile(StampAll(records, ts))) @@ disk_files,
     dirs    |-> disk_dirs \cup Ancestors(MonthDir(ts)),
     records |-> StampAll(records, ts),
     ret     |-> FileName(ts)]

\* The whole call: the disk, the caller's records and the return value after it.
save_scrape_results(disk_files, disk_dirs, records, ts) ==
    IF records = <<>>
    THEN [files |-> disk_files, dirs |-> disk_dirs, records |-> records, ret |-> NoPath]
    ELSE [files   |-> (FileName(ts) :> CsvFile(StampAll(records, ts))) @@ disk_files,
          dirs    |-> disk_dirs \cup Ancestors(MonthDir(ts)),
          records |-> StampAll(records, ts),
          ret     |-> FileName(ts)]

(***************************************************************************)
(* scrape_walk_full_year (lines 130-190).                                  *)
(***************************************************************************)
\* Mutant of PrepareRequests: the first window starts one window late.
PrepareRequests_FromNext(current_date, days, nights) ==
    [n \in 1..RequestsNeeded(days, nights) |->
        <<n, StrfDate(AddDays(current_date, n * nights))>>]

\* lines 153-157: the (request_num, arrival_date_str) pairs
PrepareRequests(current_date, days, nights) ==
    [n \in 1..RequestsNeeded(days, nights) |->
        <<n, StrfDate(AddDays(current_date, (n - 1) * nights))>>]

\* A future of an executor: pending in the work queue, running on a worker
\* thread, or done with the call's outcome; yielded once as_completed gave it
\* to the collecting loop.
NewFuture(args) ==
    [state |-> "pending", args |-> args, out |-> Returned(<<>>), yielded |-> FALSE]

\* lines 161-172: one future per prepared request, in the order of the requests
SubmitRequests(place_id, walk_name, requests, nights) ==
    [n \in 1..Len(requests) |->
        NewFuture([place_id |-> place_id, walk_name |-> walk_name,
                   arrival_date |-> requests[n][2], nights |-> nights,
                   request_num |-> requests[n][1], total_requests |-> Len(requests)])]

NotStarted ==
    [state |-> "pending", current_date |-> 0, requests |-> <<>>, futures |-> <<>>,
     all_records |-> <<>>, out |-> <<>>, yielded |-> FALSE]

Running(futures) == { k \in DOMAIN futures : futures[k].state = "running" }

\* The work queue of a ThreadPoolExecutor is first in, first out.
NextPending(futures, k) ==
    /\ futures[k].state = "pending"
    /\ \A j \in 1..(k - 1) : futures[j].state # "pending"


PendingBefore(futures, n) == { j \in 1..(n - 1) : futures[j].state = "pending" }

\* Mutant of Dispatch: every queued request gets a thread of its own.
Dispatch_Unbounded(futures, max_workers) ==
    [n \in DOMAIN futures |->
        IF futures[n].state = "pending"
           THEN [futures[n] EXCEPT !.state = "running"]
           ELSE futures[n]]

\* line 160, ThreadPoolExecutor(max_workers): the executor runs at most
\* max_workers calls at a time; a free worker thread takes the oldest queued
\* call, whose line 79 is then in flight.
Dispatch(futures, max_workers) ==
    [n \in DOMAIN futures |->
        IF /\ futures[n].state = "pending"
           /\ Cardinality(Running(futures)) + Cardinality(PendingBefore(futures, n))
                 < max_workers
           THEN [futures[n] EXCEPT !.state = "running"]
           ELSE futures[n]]

\* The frame of scrape_walk_full_year once its requests are submitted.
Started(frame, place_id, walk_name, now, days, nights, max_workers) ==
    [frame EXCEPT !.state = "running",
                  !.current_date = now,
                  !.requests = PrepareRequests(now, days, nights),
                  !.futures = Dispatch(SubmitRequests(place_id, walk_name,
                                          PrepareRequests(now, days, nights), nights),
                                       max_workers)]

\* What the endpoint can answer to a request for arrival_date in a run.
RunResponses(arrival_date) ==
    { [transport |-> "ok", status |-> 200, body |-> [kind |-> "array", data |-> <<>>]],
      [transport |-> "ok", status |-> 200,
       body |-> [kind |-> "object",
                 data |-> [GreatWalkFacilityData |->
                    << FullFacility @@ ("GreatWalkFacilityDateData" :>
                          << ("ArrivalDate" :> arrival_date) @@ FullDateEntry >>) >>]]] }

\* lines 137-172: a worker of main's executor takes the walk and runs the call
\* up to the submission of its requests
StartWalk(i) ==
    /\ pc = "collecting"
    /\ NextPending(walk_task, i)
    /\ Cardinality(Running(walk_task)) < max_parallel_walks
    /\ \E now \in Readings :
        /\ clock' = now
        /\ walk_task' = [walk_task EXCEPT ![i] =
              Started(@, enabled_walks[i].placeId, enabled_walks[i].name, now,
                      days_ahead, nights_per_request, max_workers_per_walk)]
    /\ UNCHANGED <<config, pc, check_timestamp, enabled_walks, all_records, walk_results,
                   disk_vars, fetch_vars, save_vars>>

\* The future of a call that returned or raised.
Done(future, out) == [future EXCEPT !.state = "done", !.out = out]

\* scrape_walk_availability returns or raises: the future is done and its
\* worker thread is free for the next queued request
FinishRequest(i, k) ==
    /\ walk_task[i].state = "running"
    /\ walk_task[i].futures[k].state = "running"
    /\ LET a == walk_task[i].futures[k].args
       IN  \E resp \in RunResponses(a.arrival_date) :
            walk_task' = [walk_task EXCEPT ![i].futures =
                Dispatch([@ EXCEPT ![k] =
                            Done(@, scrape_walk_availability(a.place_id, a.walk_name,
                                        a.arrival_date, a.nights, resp))],
                         max_workers_per_walk)]
    /\ UNCHANGED <<config, pc, clock, check_timestamp, enabled_walks, all_records,
                   walk_results, disk_vars, fetch_vars, save_vars>>

\* Mutant of CollectRequest: future.result() is not guarded, so a request's
\* exception leaves the loop and the call with nothing returned.
CollectRequest_Abort(i, k) ==
    /\ walk_task[i].state = "running"
    /\ walk_task[i].futures[k].state = "done"
    /\ ~walk_task[i].futures[k].yielded
    /\ walk_task' = [walk_task EXCEPT
          ![i].futures[k].yielded = TRUE,
          ![i].state = IF walk_task[i].futures[k].out.raised = "" THEN @ ELSE "done",
          ![i].all_records = IF walk_task[i].futures[k].out.raised = ""
                                THEN @ \o walk_task[i].futures[k].out.records
                                ELSE @]
    /\ UNCHANGED <<config, pc, clock, check_timestamp, enabled_walks, all_records,
                   walk_results, disk_vars, fetch_vars, save_vars>>

\* lines 176-183: one iteration of the walk's collecting loop
CollectRequest(i, k) ==
    /\ walk_task[i].state = "running"
    /\ walk_task[i].futures[k].state = "done"
    /\ ~walk_task[i].futures[k].yielded
    /\ walk_task' = [walk_task EXCEPT
          ![i].futures[k].yielded = TRUE,
          ![i].all_records = IF walk_task[i].futures[k].out.raised = ""
                                THEN @ \o walk_task[i].futures[k].out.records
                                ELSE @]
    /\ UNCHANGED <<config, pc, clock, check_timestamp, enabled_walks, all_records,
                   walk_results, disk_vars, fetch_vars, save_vars>>

\* lines 185-190: the loop is exhausted, the executor is shut down, the call returns
WalkReturn(i) ==
    /\ walk_task[i].state = "running"
    /\ \A k \in DOMAIN walk_task[i].futures : walk_task[i].futures[k].yielded
    /\ walk_task' = [walk_task EXCEPT ![i].state = "done",
                                      ![i].out = walk_task[i].all_records]
    /\ UNCHANGED <<config, pc, clock, check_timestamp, enabled_walks, all_records,
                   walk_results, disk_vars, fetch_vars, save_vars>>

(***************************************************************************)
(* main (lines 238-332).                                                   *)
(***************************************************************************)
\* lines 248-254
MainFilter ==
    /\ pc = "start"
    /\ enabled_walks' = EnabledWalks(config.walks)
    /\ pc' = IF EnabledWalks(config.walks) = <<>> THEN "returned" ELSE "configured"
    /\ UNCHANGED <<config, clock, check_timestamp, walk_task, all_records,
                   walk_results, disk_vars, fetch_vars, save_vars>>

\* lines 256-299
MainSubmit ==
    /\ pc = "configured"
    /\ check_timestamp' = clock
    /\ walk_task' = [i \in 1..Len(enabled_walks) |-> NotStarted]
    /\ pc' = "collecting"
    /\ UNCHANGED <<config, clock, enabled_walks, all_records, walk_results,
                   disk_vars, fetch_vars, save_vars>>

\* lines 303-310: one iteration of main's collecting loop
MainCollect(i) ==
    /\ pc = "collecting"
    /\ walk_task[i].state = "done"
    /\ ~walk_task[i].yielded
    /\ walk_task' = [walk_task EXCEPT ![i].yielded = TRUE]
    /\ all_records' = all_records \o walk_task[i].out
    /\ walk_results' = (enabled_walks[i].name :> Len(walk_task[i].out)) @@ walk_results
    /\ UNCHANGED <<config, pc, clock, check_timestamp, enabled_walks,
                   disk_vars, fetch_vars, save_vars>>

\* Mutant of MainSave: the snapshot is written as soon as one walk was collected.
MainSave_Streaming ==
    /\ pc = "collecting"
    /\ \E i \in DOMAIN walk_task : walk_task[i].yielded
    /\ LET saved == save_scrape_results(files, dirs, all_records, check_timestamp)
       IN  /\ files' = saved.files
           /\ dirs' = saved.dirs
           /\ all_records' = saved.records
    /\ pc' = "returned"
    /\ UNCHANGED <<config, clock, check_timestamp, enabled_walks, walk_task,
                   walk_results, fetch_vars, save_vars>>

\* Mutant of MainSave: the records are stamped with the time of the write.
MainSave_StampNow ==
    /\ pc = "collecting"
    /\ \A i \in DOMAIN walk_task : walk_task[i].yielded
    /\ LET saved == save_scrape_results(files, dirs, all_records, clock)
       IN  /\ files' = saved.files
           /\ dirs' = saved.dirs
           /\ all_records' = saved.records
    /\ pc' = "returned"
    /\ UNCHANGED <<config, clock, check_timestamp, enabled_walks, walk_task,
                   walk_results, fetch_vars, save_vars>>

\* lines 315-332: the loop is exhausted, the executor is shut down, the results are saved
MainSave ==
    /\ pc = "collecting"
    /\ \A i \in DOMAIN walk_task : walk_task[i].yielded
    /\ LET saved == save_scrape_results(files, dirs, all_records, check_timestamp)
       IN  /\ files' = saved.files
           /\ dirs' = saved.dirs
           /\ all_records' = saved.records
    /\ pc' = "returned"
    /\ UNCHANGED <<config, clock, check_timestamp, enabled_walks, walk_task,
                   walk_results, fetch_vars, save_vars>>

Init ==
    /\ config \in Configs
    /\ pc = "start"
    /\ clock \in StartInstants
    /\ check_timestamp = 0
    /\ enabled_walks = <<>>
    /\ walk_task = <<>>
    /\ all_records = <<>>
    /\ walk_results = EmptyDict
    /\ files = EmptyDict
    /\ dirs = {}
    /\ fetch_call = NoCall /\ fetch_ret = NoCall
    /\ save_call = NoCall /\ save_ret = NoCall

Next ==
    \/ MainFilter
    \/ MainSubmit
    \/ \E i \in DOMAIN walk_task : StartWalk(i)
    \/ \E i \in DOMAIN walk_task : \E k \in DOMAIN walk_task[i].futures : FinishRequest(i, k)
    \/ \E i \in DOMAIN walk_task : \E k \in DOMAIN walk_task[i].futures : CollectRequest(i, k)
    \/ \E i \in DOMAIN walk_task : WalkReturn(i)
    \/ \E i \in DOMAIN walk_task : MainCollect(i)
    \/ MainSave

Spec == Init /\ [][Next]_vars

(***************************************************************************)
(* SpecWriter: save_scrape_results called again and again on one disk.     *)
(***************************************************************************)
\* The last minute of a year.
SaveStartInstant == Instant(2026, 12, 31, 23, 59, 0)

MaxSaveDelays == 2

FetchedRecord ==
    MakeRecord("Milford Track", "873", FullFacility, FullDateEntry)

\* A fetched record, and a record that already holds a check_timestamp.
SaveRecords ==
    { FetchedRecord,
      ("check_timestamp" :> <<2026, 12, 30, 6, 0, 0>>)
         @@ MakeRecord("Kepler Track", "875", EmptyDict, EmptyDict) }

SaveInit ==
    /\ files = EmptyDict
    /\ dirs = {}
    /\ clock = SaveStartInstant
    /\ save_call = NoCall
    /\ save_ret = NoCall
    /\ config = EmptyDict /\ pc = "unused" /\ check_timestamp = 0
    /\ enabled_walks = <<>> /\ walk_task = <<>>
    /\ all_records = <<>> /\ walk_results = EmptyDict
    /\ fetch_call = NoCall /\ fetch_ret = NoCall

\* a caller reads the clock and calls save_scrape_results(records, check_timestamp)
SaveInvoke ==
    /\ save_call.state # "called"
    /\ \E now \in Readings, records \in SeqsUpTo(SaveRecords, MaxSaveRecords) :
        /\ now <= SaveStartInstant + MaxSaveDelays * Delay
        /\ clock' = now
        /\ save_call' = [state |-> "called", records |-> records, check_timestamp |-> now]
    /\ save_ret' = NoCall
    /\ UNCHANGED <<config, pc, check_timestamp, enabled_walks, walk_task, all_records,
                   walk_results, disk_vars, fetch_vars>>

\* lines 193-235
SaveRun ==
    /\ save_call.state = "called"
    /\ LET saved == save_scrape_results(files, dirs, save_call.records,
                                        save_call.check_timestamp)
       IN  /\ files' = saved.files
           /\ dirs' = saved.dirs
           /\ save_call' = [save_call EXCEPT !.state = "returned", !.records = saved.records]
           /\ save_ret' = [state |-> "done", ret |-> saved.ret]
    /\ UNCHANGED <<run_vars, fetch_vars>>

SaveNext == SaveInvoke \/ SaveRun

SpecWriter == SaveInit /\ [][SaveNext]_vars

(***************************************************************************)
(* The claims.                                                             *)
(***************************************************************************)
StartedWalks == { i \in DOMAIN walk_task : walk_task[i].state # "pending" }

Range(seq) == { seq[j] : j \in DOMAIN seq }

CountIn(seq, r) == Cardinality({ j \in DOMAIN seq : seq[j] = r })

\* C1: a started walk has exactly floor(H/W) + 1 requests, the request with
\* index n (counted from 0) asks for the calendar date n*W days after the date
\* of the walk's scheduling instant, for the walk's own placeId; with H = 60
\* and W = 30 the requests are 3, at 0, 30 and 60 days.
C1_RequestCountAndDates ==
    /\ \A i \in StartedWalks :
        LET f == walk_task[i].futures
        IN  /\ Len(f) = (days_ahead \div nights_per_request) + 1
            /\ \A n \in DOMAIN f :
                /\ DaysFromCivil(f[n].args.arrival_date)
                     = DayOf(walk_task[i].current_date) + (n - 1) * nights_per_request
                /\ f[n].args.place_id = enabled_walks[i].placeId
                /\ f[n].args.request_num = n
    /\ pc = "start" =>
          LET example == PrepareRequests(clock, 60, 30)
          IN  /\ Len(example) = 3
              /\ { DaysFromCivil(example[n][2]) - DayOf(clock) : n \in DOMAIN example }
                    = {0, 30, 60}

\* C1 witness: with a window of 2 nights the second request of a walk scheduled
\* on 2024-02-28 is in flight and asks for 2024-03-01.
C1_Witness ==
    \E i \in StartedWalks :
        /\ nights_per_request = 2
        /\ Len(walk_task[i].futures) = 2
        /\ walk_task[i].futures[2].state = "running"
        /\ walk_task[i].futures[2].args.arrival_date = <<2024, 3, 1>>

\* The outcomes the claim C2 lists for the single HTTP call.
C2_ListedOutcome(resp) ==
    \/ resp.transport # "ok"
    \/ resp.status = 403
    \/ ~(200 <= resp.status /\ resp.status < 300)
    \/ /\ resp.body.kind = "object"
       /\ Get(resp.body.data, "GreatWalkFacilityData", <<>>) = <<>>

\* C2: in each listed outcome (transport failure or timeout, 403, any other
\* non-2xx status, a 2xx answer without facility data) the call does not raise
\* and returns no record.
C2_ListedOutcomesReturnEmpty ==
    (fetch_ret.state = "done" /\ C2_ListedOutcome(fetch_call.resp))
        => fetch_ret.out = Returned(<<>>)

\* The records of a walk's requests that did not raise, in request order.
ReturnedRecords(i) ==
    Concat([k \in DOMAIN walk_task[i].futures |->
               IF walk_task[i].futures[k].out.raised = ""
                  THEN walk_task[i].futures[k].out.records ELSE <<>>])

\* C3: when scrape_walk_full_year has returned, every request was run and
\* collected, whichever raised and in whatever order they completed, and the
\* result holds exactly the records (counted with multiplicity) that the
\* requests which did not raise returned.
C3_RaisingRequestsContributeNothing ==
    \A i \in DOMAIN walk_task :
        walk_task[i].state = "done" =>
            /\ walk_task[i].futures # <<>>
            /\ \A k \in DOMAIN walk_task[i].futures :
                  walk_task[i].futures[k].state = "done" /\ walk_task[i].futures[k].yielded
            /\ Len(walk_task[i].out) = Len(ReturnedRecords(i))
            /\ \A r \in Range(walk_task[i].out) \cup Range(ReturnedRecords(i)) :
                  CountIn(walk_task[i].out, r) = CountIn(ReturnedRecords(i), r)

\* C3 witness: of three requests the second raised, the third was collected
\* before the first, and the walk returned the two records.
C3_Witness ==
    \E i \in DOMAIN walk_task :
        /\ walk_task[i].state = "done"
        /\ Len(walk_task[i].futures) = 3
        /\ walk_task[i].futures[1].out.raised = ""
        /\ walk_task[i].futures[2].out.raised # ""
        /\ walk_task[i].futures[3].out.raised = ""
        /\ Len(walk_task[i].out) = 2
        /\ walk_task[i].out[1].target_date = walk_task[i].futures[3].args.arrival_date

AllFetchWorkCompleted ==
    /\ DOMAIN walk_task = DOMAIN enabled_walks
    /\ \A i \in DOMAIN walk_task :
        /\ walk_task[i].state = "done"
        /\ walk_task[i].futures # <<>>
        /\ \A k \in DOMAIN walk_task[i].futures : walk_task[i].futures[k].state = "done"

\* C4: a file or a directory exists on the disk only when every request of every
\* enabled walk has returned or raised: nothing is written while a request is
\* pending or in flight.
C4_WriteAfterAllFetches ==
    (files # EmptyDict \/ dirs # {}) => (pc = "returned" /\ AllFetchWorkCompleted)

\* C4 witness: the snapshot of a run of two walks, one of whose requests raised,
\* is on the disk.
C4_Witness ==
    /\ files # EmptyDict
    /\ Len(walk_task) = 2
    /\ \E i \in DOMAIN walk_task : \E k \in DOMAIN walk_task[i].futures :
          walk_task[i].futures[k].out.raised # ""

\* C5: every row of the run's file, and every record main holds after the write,
\* carries the ISO form of the one instant main captured, which no walk's
\* scheduling instant precedes.
C5_OneCheckTimestamp ==
    /\ files # EmptyDict =>
          LET stamp == IsoFormat(check_timestamp)
          IN  /\ \A path \in DOMAIN files : \A j \in DOMAIN files[path].rows :
                    files[path].rows[j][1] = stamp
              /\ \A j \in DOMAIN all_records : all_records[j].check_timestamp = stamp
    /\ \A i \in StartedWalks : check_timestamp <= walk_task[i].current_date
    /\ pc \in {"collecting", "returned"} /\ enabled_walks # <<>> =>
          check_timestamp \in StartInstants

\* C5 witness: a file with rows of two walks, written after the clock had moved
\* on from the captured instant.
C5_Witness ==
    /\ clock > check_timestamp
    /\ \E path \in DOMAIN files : \E j, k \in DOMAIN files[path].rows :
          files[path].rows[j][2] # files[path].rows[k][2]

SaveRan == save_call.state = "called" /\ save_call'.state = "returned"

\* The path data/<YYYY>/<MM>/<YYYY-MM-DD-HHMM>.csv of the instant ts.
SnapshotPath(ts) ==
    LET iso == IsoFormat(ts)
    IN  <<"data", <<iso[1]>>, <<iso[2]>>, <<iso[1], iso[2], iso[3], iso[4], iso[5]>>, "csv">>

\* C6: a call with no records leaves the disk as it was; a call with records
\* writes exactly one file, at the path of the run instant, with the fixed header
\* and one row per record, and touches no other file.
C6_WriterFiles ==
    [][SaveRan =>
        IF save_call.records = <<>>
        THEN files' = files /\ dirs' = dirs
        ELSE LET path == SnapshotPath(save_call.check_timestamp)
             IN  /\ DOMAIN files' = DOMAIN files \cup {path}
                 /\ \A other \in DOMAIN files \ {path} : files'[other] = files[other]
                 /\ files'[path].header =
                      <<"check_timestamp", "walk_name", "place_id", "facility_name",
                        "facility_id", "target_date", "total_capacity", "total_available",
                        "booking_status", "price">>
                 /\ Len(files'[path].rows) = Len(save_call.records)
                 /\ save_ret'.ret = path
                 /\ SubSeq(path, 1, 3) \in dirs'
    ]_vars

\* C6 witness: a call with two records has returned and its file holds two rows.
C6_Witness ==
    /\ save_ret.state = "done"
    /\ save_call.state = "returned"
    /\ Len(save_call.records) = 2
    /\ save_ret.ret \in DOMAIN files
    /\ Len(files[save_ret.ret].rows) = 2

\* C7: a call leaves the contents of every file that existed before it intact.
C7_NoOverwrite ==
    [][SaveRan => \A path \in DOMAIN files : files'[path] = files[path]]_vars

\* A walk of the configuration that is enabled and has a placeId.
Eligible(w) ==
    /\ "enabled" \in DOMAIN w /\ w.enabled = TRUE
    /\ "placeId" \in DOMAIN w /\ w.placeId # None

\* C8: every request carries the name and placeId of an eligible walk of the
\* configuration; when no walk is eligible main returns at once, with no
\* request issued and nothing on the disk.
C8_OnlyEligibleWalks ==
    /\ \A i \in DOMAIN walk_task : \A k \in DOMAIN walk_task[i].futures :
          \E j \in DOMAIN config.walks :
              /\ Eligible(config.walks[j])
              /\ walk_task[i].futures[k].args.place_id = config.walks[j].placeId
              /\ walk_task[i].futures[k].args.walk_name = config.walks[j].name
    /\ (\A j \in DOMAIN config.walks : ~Eligible(config.walks[j])) =>
          /\ pc \in {"start", "returned"}
          /\ walk_task = <<>>
          /\ files = EmptyDict /\ dirs = {}

\* C8 witness: main has returned on a configuration whose only enabled walk has a
\* null placeId.
C8_Witness ==
    /\ pc = "returned"
    /\ \A j \in DOMAIN config.walks : ~Eligible(config.walks[j])
    /\ \E j \in DOMAIN config.walks : Get(config.walks[j], "enabled", FALSE)

InFlight(i) == Cardinality(Running(walk_task[i].futures))

RECURSIVE TotalInFlight(_)
TotalInFlight(n) == IF n = 0 THEN 0 ELSE InFlight(n) + TotalInFlight(n - 1)

\* C9: at most max_parallel_walks walks are being scraped at once, each with at
\* most max_workers_per_walk requests in flight, so at most their product in all.
C9_PoolBounds ==
    /\ Cardinality(Running(walk_task)) <= max_parallel_walks
    /\ \A i \in DOMAIN walk_task : InFlight(i) <= max_workers_per_walk
    /\ TotalInFlight(Len(walk_task)) <= max_parallel_walks * max_workers_per_walk

\* C9 witness: two walks are scraped at once and each has its one worker busy
\* while another request of it waits.
C9_Witness ==
    /\ max_parallel_walks = 2
    /\ max_workers_per_walk = 1
    /\ Cardinality(Running(walk_task)) = 2
    /\ \A i \in DOMAIN walk_task :
          /\ InFlight(i) = 1
          /\ \E k \in DOMAIN walk_task[i].futures : walk_task[i].futures[k].state = "pending"

\* The days (day numbers) the requests of walk i ask for.
Covered(i) ==
    UNION { LET first == DaysFromCivil(walk_task[i].futures[n].args.arrival_date)
            IN  { first + d : d \in 0..(walk_task[i].futures[n].args.nights - 1) } :
            n \in DOMAIN walk_task[i].futures }

\* The days of the horizon of walk i: the scheduling day and the H days after it.
Horizon(i) == { DayOf(walk_task[i].current_date) + d : d \in 0..days_ahead }

\* C10: the windows of a started walk cover every day from the scheduling day to
\* the day H days ahead, and at most W - 1 days beyond.
C10_HorizonCovered ==
    \A i \in StartedWalks :
        LET covered == Covered(i)
            horizon == Horizon(i)
        IN  /\ horizon \subseteq covered
            /\ Cardinality(covered \ horizon) <= nights_per_request - 1

\* C10 witness: with H = 2 and W = 2 the two windows cover one day beyond the
\* horizon, which is W - 1.
C10_Witness ==
    \E i \in StartedWalks :
        /\ days_ahead = 2
        /\ nights_per_request = 2
        /\ Cardinality(Covered(i) \ Horizon(i)) = 1

====
